---- MODULE Spec2Model ----
(***************************************************************************)
(* Load-test engine of pod-rightsizer (pkg/loadtest/tester.go).            *)
(*                                                                         *)
(* Tester.Run drives either the rate dispatcher (runRPSTest) or the worker *)
(* pool (runConcurrentTest).  Both wire their producers to one collector   *)
(* goroutine through resultsChan, guarded by resultChanMutex and the       *)
(* resultChanClosed flag (safeSend / safeClose).                           *)
(*                                                                         *)
(* Processes: the goroutine running Run ("main"), the collector, the       *)
(* senders 1..MaxSenders (per-tick request goroutines in rate mode,        *)
(* workers in concurrency mode) and the process Closer, which is the       *)
(* dispatcher goroutine in rate mode (it runs the deferred safeClose) and  *)
(* the closer goroutine in concurrency mode.                               *)
(*                                                                         *)
(* Durations are counted in milliseconds (time.Duration counts             *)
(* nanoseconds; the 24h sentinel does not fit TLC's integers in ns).       *)
(***************************************************************************)
EXTENDS Integers, Sequences, FiniteSets, TLC

\* ---------------------------------------------------------------- bounds
MaxRps == 2          \* largest requests-per-second drawn
MaxDurSecs == 1      \* largest int(duration.Seconds()) drawn
MaxSenders == 2      \* request goroutines (planned total) or workers of a run
MaxAttempts == 2     \* requests the workers start in all
MaxClients == 2      \* clients of the guard harness
MaxCalls == 3        \* calls the clients of the guard harness make in all
ConcBufSize == 1     \* stands for the 10000-slot buffer of runConcurrentTest
MaxAdds == 4         \* outcomes fed one by one to an aggregate on its own
MaxBurst == 22       \* longest run of latency samples an aggregate starts with
MaxStep == 3         \* strides that shuffle the samples of such a run
MaxUsage == 2        \* longest list of usage samples given to the recommender
MaxBody == 2         \* characters after the prefix of a target

\* ------------------------------------------------------------- durations
Millisecond == 1
Hour == 3600000 * Millisecond

\* A sentinel below every latency.
MinLatencySentinelZero == 0 * Hour

MinLatencySentinel == 24 * Hour

\* ------------------------------------------------------------- processes
Closer == 0
NoOne == -1
Senders == 1..MaxSenders
Procs == Senders \cup {Closer}

\* Result values a request attempt can produce: a construction error
\* (no latency), a transport error (latency up to the failure), and
\* responses at both ends of the success range and just outside it.
ConstructionError == [Latency |-> 0, StatusCode |-> 0, Error |-> TRUE]
TransportError == [Latency |-> 7 * Millisecond, StatusCode |-> 0, Error |-> TRUE]
Response(code, lat) == [Latency |-> lat, StatusCode |-> code, Error |-> FALSE]
AllOutcomes ==
    {ConstructionError, TransportError,
     Response(199, 1 * Millisecond), Response(200, 3 * Millisecond),
     Response(399, 5 * Millisecond), Response(400, 9 * Millisecond)}
\* The attempts of a run draw from one failed and one answered outcome.
Outcomes == {TransportError, Response(200, 3 * Millisecond)}
NoResult == [Latency |-> 0, StatusCode |-> 0, Error |-> FALSE]

VARIABLES
    rps,              \* Tester.rps
    concurrency,      \* Tester.concurrency
    durSecs,          \* int(duration.Seconds())
    parseErr,         \* url.Parse(target) returns an error
    mainPc,           \* position of the goroutine running Run
    parentDone,       \* ctx.Done() is closed
    testDone,         \* testCtx.Done() is closed
    tickPending,      \* a tick is buffered in ticker.C
    sent,             \* dispatcher's sent counter
    helperPc,         \* goroutine of lines 209-212 (requestWg.Wait; testCancel)
    pc,               \* position of each sender and of Closer
    ret,              \* where a process continues when safeSend/safeClose returns
    out,              \* the Result a sender is handing to safeSend
    calls,            \* guard calls the clients of the harness have made
    resultsChan,      \* buffered contents of resultsChan
    chanCap,          \* cap(resultsChan)
    chanClosed,       \* close(resultsChan) has been executed
    resultChanClosed, \* the flag of that name
    resultChanMutex,  \* holder of resultChanMutex, NoOne when unlocked
    collectorPc,      \* position of the collector goroutine
    metrics,          \* the collector's Metrics value
    summaryCount,     \* calls of metrics.PrintSummary
    fault,            \* runtime panic raised, "none" if none (a panic ends
                      \* the program: every action requires fault = "none")
    attempts,         \* history: request attempts started
    enqueued,         \* history: results accepted by the channel
    dropFull,         \* history: results dropped on the default case
    dropCtx,          \* history: results dropped on the testCtx.Done() case
    dropClosed,       \* history: results dropped because the flag was set
    closeCount,       \* history: executions of close(resultsChan)
    closeReturned,    \* history: safeClose calls that have returned
    lateSends,        \* history: safeSend calls begun after a safeClose had
                      \* returned that have returned themselves
    sendInfo,         \* what held when a process began its safeSend call
    fed,              \* outcomes fed to an aggregate on its own (MetricsSpec)
    stats,            \* results of the derived statistics of that aggregate
    target,           \* Tester.target given to validateTarget (ValidateSpec)
    parsed,           \* what validateTarget returned
    allMetrics,       \* usage samples given to GenerateRecommendations
    margin,           \* its margin argument
    recs,             \* the Recommendations it returned
    flowPc,           \* position of main in its flow (main.go, MainFlowSpec)
    ctxCancelled,     \* main's ctx.Done() is closed
    samplerPc,        \* position of the sampler goroutine (lines 79-97)
    tickerC,          \* a tick is buffered in the sampler's ticker.C
    sample,           \* the sample the sampler is sending on metricsChan
    metricsChanCloses, \* executions of close(metricsChan)
    gathererPc,       \* position of the goroutine of lines 115-123
    received,         \* the sample that goroutine has received
    loadPc,           \* position of the goroutine of lines 105-108
    resultChan,       \* contents of resultChan (capacity 1)
    loadTestFinished  \* main's variable of that name

cfgVars == <<rps, concurrency, durSecs, parseErr>>
ctxVars == <<parentDone, testDone>>
rateVars == <<tickPending, sent, helperPc>>
procVars == <<pc, ret, out, calls>>
chanVars == <<resultsChan, chanCap, chanClosed, resultChanClosed, resultChanMutex>>
collVars == <<collectorPc, metrics, summaryCount>>
histVars == <<attempts, enqueued, dropFull, dropCtx, dropClosed, closeCount,
              closeReturned, lateSends, sendInfo>>
runVars == <<cfgVars, mainPc, ctxVars, rateVars, procVars, chanVars, collVars,
             fault, histVars>>
flowVars == <<flowPc, ctxCancelled, samplerPc, tickerC, sample,
              metricsChanCloses, gathererPc, received, loadPc, resultChan,
              loadTestFinished>>
pureVars == <<fed, stats, target, parsed, allMetrics, margin, recs, flowVars>>
vars == <<runVars, pureVars>>

\* ------------------------------------------------------------- Metrics
\* The zero value of the Metrics struct (var metrics Metrics).
ZeroMetrics ==
    [Requests |-> 0, Success |-> 0, Failures |-> 0,
     StatusCodesNil |-> TRUE, StatusCodes |-> <<>>,
     TotalLatency |-> 0, MinLatency |-> 0, MaxLatency |-> 0,
     Latencies |-> <<>>]

\* A histogram that records a code without counting its occurrences.
MapIncrementOverwrite(codes, code) ==
    [c \in DOMAIN codes \cup {code} |-> IF c = code THEN 1 ELSE codes[c]]

\* m.StatusCodes[code]++ on a Go map (a missing key reads as 0).
MapIncrement(codes, code) ==
    IF code \in DOMAIN codes
    THEN [codes EXCEPT ![code] = @ + 1]
    ELSE [c \in DOMAIN codes \cup {code} |-> IF c = code THEN 1 ELSE codes[c]]

\* A success range that takes in 400.
IsSuccessStatusInclusive(code) == code >= 200 /\ code <= 400

\* Line 486: r.StatusCode >= 200 && r.StatusCode < 400
IsSuccessStatus(code) == code >= 200 /\ code < 400

\* An Add that counts the request but forgets m.Failures++.
AddForgettingFailures(m, r) ==
    [m EXCEPT !.Requests = @ + 1,
              !.Success = IF ~r.Error /\ IsSuccessStatus(r.StatusCode)
                          THEN @ + 1 ELSE @]

\* Metrics.Add
Add(m, r) ==
    LET m0 == IF m.StatusCodesNil
              THEN [m EXCEPT !.StatusCodesNil = FALSE,
                             !.MinLatency = MinLatencySentinel]
              ELSE m
        m1 == [m0 EXCEPT !.Requests = @ + 1]
    IN  IF r.Error
        THEN [m1 EXCEPT !.Failures = @ + 1]
        ELSE LET m2 == [m1 EXCEPT
                          !.StatusCodes = MapIncrement(@, r.StatusCode),
                          !.TotalLatency = @ + r.Latency,
                          !.Latencies = Append(@, r.Latency),
                          !.MinLatency = IF r.Latency < @ THEN r.Latency ELSE @,
                          !.MaxLatency = IF r.Latency > @ THEN r.Latency ELSE @]
             IN  IF IsSuccessStatus(r.StatusCode)
                 THEN [m2 EXCEPT !.Success = @ + 1]
                 ELSE [m2 EXCEPT !.Failures = @ + 1]

\* Add applied to a whole sequence of outcomes, first to last.
RECURSIVE AddAll(_)
AddAll(f) ==
    IF f = <<>> THEN ZeroMetrics
    ELSE Add(AddAll(SubSeq(f, 1, Len(f) - 1)), f[Len(f)])

\* A float64 result, kept exact as numerator over denominator (a zero
\* denominator stands for NaN or an infinity).
Frac(n, d) == [num |-> n, den |-> d]
FloatZero == Frac(0, 1)
IsZero(x) == x.num = 0 /\ x.den # 0

\* A mean over the latency samples instead of over the requests.
MeanLatencyOverSamples(m) ==
    IF m.Requests = 0 \/ m.TotalLatency = 0 THEN 0
    ELSE m.TotalLatency \div Len(m.Latencies)

\* Metrics.MeanLatency (int64 division of non-negative operands)
MeanLatency(m) ==
    IF m.Requests = 0 \/ m.TotalLatency = 0 THEN 0
    ELSE m.TotalLatency \div m.Requests

\* Metrics.SuccessRate: float64(m.Success) / float64(m.Requests) * 100.0
SuccessRate(m) ==
    IF m.Requests = 0 THEN FloatZero
    ELSE Frac(m.Success * 100, m.Requests)

\* s with x inserted before the first element greater than x.
RECURSIVE Insert(_, _)
Insert(s, x) ==
    IF s = <<>> THEN <<x>>
    ELSE IF x < Head(s) THEN <<x>> \o s
    ELSE <<Head(s)>> \o Insert(Tail(s), x)

\* sort.Slice with the "less than" comparison: s in ascending order.
RECURSIVE SortAscending(_)
SortAscending(s) ==
    IF s = <<>> THEN <<>>
    ELSE Insert(SortAscending(Tail(s)), Head(s))

\* An index that always picks the largest sample.
P95IndexLast(n) == n - 1

\* Lines 530-533: idx := int(float64(n) * 0.95), clamped to n - 1.  The
\* product is 19n/20 within less than half a unit in the last place, so
\* the truncation equals the integer quotient of 19n by 20.
P95Index(n) ==
    LET idx == (19 * n) \div 20
    IN  IF idx >= n THEN n - 1 ELSE idx

\* A percentile read from the samples in arrival order.
P95LatencyUnsorted(m) ==
    IF Len(m.Latencies) = 0 THEN 0
    ELSE m.Latencies[P95Index(Len(m.Latencies)) + 1]

\* Metrics.P95Latency (slices are indexed from 0, sequences from 1)
P95Latency(m) ==
    IF Len(m.Latencies) = 0 THEN 0
    ELSE SortAscending(m.Latencies)[P95Index(Len(m.Latencies)) + 1]

\* A throughput without the test for an empty aggregate: 0 / 0.
ThroughputUnguarded(m) == Frac(m.Requests * 1000, m.TotalLatency)

\* Metrics.Throughput: float64(m.Requests) / m.TotalLatency.Seconds(),
\* with the latency counted in milliseconds.
Throughput(m) ==
    IF m.Requests = 0 \/ m.TotalLatency = 0 THEN FloatZero
    ELSE Frac(m.Requests * 1000, m.TotalLatency)

\* No derived statistic has been computed.
NoStats ==
    [computed |-> FALSE, mean |-> 0, successRate |-> FloatZero,
     p95 |-> 0, throughput |-> FloatZero]

\* ------------------------------------------------------------- helpers
\* Run, line 50: "if t.concurrency > 0" chooses runConcurrentTest,
\* otherwise runRPSTest.
RateMode == concurrency = 0

\* A mode test that sends a single worker to the rate dispatcher.
ConcurrentModeAboveOne == concurrency > 1

ConcurrentMode == concurrency > 0

\* A validation whose error is ignored.
ValidationFailsIgnored == FALSE

\* Lines 59-62 / 240-243: validateTarget returned err != nil.
ValidationFails == parseErr

\* t.rps*int(duration.Seconds())
PlannedTotal == rps * durSecs

\* requestWg / workerWg: goroutines started and not yet returned.
Running(p) == pc[p] \notin {"unstarted", "done", "stopped"}
\* A wait for the requests that returns at once.
requestWgIgnored == Cardinality({p \in Senders : FALSE})

requestWg == Cardinality({p \in Senders : Running(p)})

\* A closer that does not wait for the workers.
workerWgIgnored == Cardinality({p \in Senders : FALSE})

workerWg == Cardinality({p \in Senders : Running(p)})

\* wg of Run: the collector, plus the dispatcher goroutine in rate mode.
wg ==
    (IF collectorPc = "done" THEN 0 ELSE 1)
    + (IF RateMode /\ pc[Closer] # "done" THEN 1 ELSE 0)

\* ------------------------------------------------- the guarded channel
\* A lock that excludes nobody.
MutexFreeNoExclusion(m) == TRUE

\* sync.Mutex.Lock proceeds only while the mutex is unlocked.
MutexFree(m) == m = NoOne

\* safeSend without the test of the flag.
SendAllowedUnchecked(closedFlag) == TRUE

\* Line 122 / 299: "if !resultChanClosed" in safeSend.
SendAllowed(closedFlag) == ~closedFlag

\* safeClose without the test of the flag.
CloseNeededUnchecked(closedFlag) == TRUE

\* Line 140 / 317: "if !resultChanClosed" in safeClose.
CloseNeeded(closedFlag) == ~closedFlag

\* The collector may be parked in its select on an empty, open channel;
\* a send then hands the result to it directly (unbuffered rendezvous).
ReceiverMayWait ==
    collectorPc = "select" /\ ~testDone /\ resultsChan = <<>> /\ ~chanClosed

\* The select of safeSend without its default case: a blocking send.
SendSelectCasesNoDefault(done, closed, full, receiver) ==
    (IF done THEN {"ctx"} ELSE {})
    \cup (IF closed THEN {"panic"} ELSE IF ~full THEN {"send"} ELSE {})
    \cup (IF ~closed /\ full /\ receiver THEN {"handoff"} ELSE {})

\* The select of safeSend (lines 123-131 / 300-308).  Go picks uniformly
\* among the cases that can proceed and takes default only when none can.
\* A send on a closed channel "proceeds" by panicking.
SendSelectCases(done, closed, full, receiver) ==
    LET ready == (IF done THEN {"ctx"} ELSE {})
                 \cup (IF closed THEN {"panic"}
                       ELSE IF ~full THEN {"send"} ELSE {})
        direct == IF ~closed /\ full /\ receiver THEN {"handoff"} ELSE {}
    IN  IF ready = {} THEN direct \cup {"default"} ELSE ready \cup direct

NoInfo == [afterClose |-> FALSE, ctxDone |-> FALSE]

\* A process calls safeSend(r) and will continue at `after`.
CallSafeSend(p, r, after) ==
    /\ pc' = [pc EXCEPT ![p] = "sLock"]
    /\ ret' = [ret EXCEPT ![p] = after]
    /\ out' = [out EXCEPT ![p] = r]
    /\ sendInfo' = [sendInfo EXCEPT ![p] =
                      [afterClose |-> closeReturned > 0, ctxDone |-> testDone]]

\* A process calls safeClose() and will continue at `after`.
CallSafeClose(p, after) ==
    /\ pc' = [pc EXCEPT ![p] = "cLock"]
    /\ ret' = [ret EXCEPT ![p] = after]

\* 1 when p's safeSend call began after a safeClose call had returned.
LateCall(p) == IF sendInfo[p].afterClose THEN 1 ELSE 0

\* safeSend: resultChanMutex.Lock() and the test of the flag.  When the
\* flag is set the call returns (deferred Unlock) without touching the
\* channel.
SafeSendLock(p) ==
    /\ fault = "none"
    /\ pc[p] = "sLock"
    /\ MutexFree(resultChanMutex)
    /\ IF SendAllowed(resultChanClosed)
       THEN /\ pc' = [pc EXCEPT ![p] = "sSelect"]
            /\ resultChanMutex' = p
            /\ UNCHANGED <<ret, out, dropClosed, lateSends, sendInfo>>
       ELSE /\ pc' = [pc EXCEPT ![p] = ret[p]]
            /\ ret' = [ret EXCEPT ![p] = "done"]
            /\ out' = [out EXCEPT ![p] = NoResult]
            /\ resultChanMutex' = NoOne
            /\ dropClosed' = dropClosed + 1
            /\ lateSends' = lateSends + LateCall(p)
            /\ sendInfo' = [sendInfo EXCEPT ![p] = NoInfo]
    /\ UNCHANGED <<pureVars, cfgVars, mainPc, ctxVars, rateVars, calls,
                   resultsChan, chanCap, chanClosed, resultChanClosed,
                   collVars, fault, attempts, enqueued, dropFull, dropCtx,
                   closeCount, closeReturned>>

\* safeSend: the select, then the deferred Unlock and the return.
SafeSendSelect(p) ==
    /\ fault = "none"
    /\ pc[p] = "sSelect"
    /\ \E c \in SendSelectCases(testDone, chanClosed,
                                Len(resultsChan) >= chanCap, ReceiverMayWait) :
          /\ resultsChan' = IF c = "send" THEN Append(resultsChan, out[p])
                            ELSE resultsChan
          /\ metrics' = IF c = "handoff" THEN Add(metrics, out[p]) ELSE metrics
          /\ enqueued' = IF c \in {"send", "handoff"} THEN enqueued + 1
                         ELSE enqueued
          /\ dropCtx' = IF c = "ctx" THEN dropCtx + 1 ELSE dropCtx
          /\ dropFull' = IF c = "default" THEN dropFull + 1 ELSE dropFull
          /\ fault' = IF c = "panic" THEN "send on closed channel" ELSE fault
    /\ pc' = [pc EXCEPT ![p] = ret[p]]
    /\ ret' = [ret EXCEPT ![p] = "done"]
    /\ out' = [out EXCEPT ![p] = NoResult]
    /\ resultChanMutex' = NoOne
    /\ lateSends' = lateSends + LateCall(p)
    /\ sendInfo' = [sendInfo EXCEPT ![p] = NoInfo]
    /\ UNCHANGED <<pureVars, cfgVars, mainPc, ctxVars, rateVars, calls,
                   chanCap, chanClosed, resultChanClosed,
                   collectorPc, summaryCount, attempts, dropClosed,
                   closeCount, closeReturned>>

\* safeClose: resultChanMutex.Lock() and the test of the flag.  When the
\* flag is already set the call returns (deferred Unlock).
SafeCloseLock(p) ==
    /\ fault = "none"
    /\ pc[p] = "cLock"
    /\ MutexFree(resultChanMutex)
    /\ IF CloseNeeded(resultChanClosed)
       THEN /\ pc' = [pc EXCEPT ![p] = "cClose"]
            /\ resultChanMutex' = p
            /\ UNCHANGED <<ret, closeReturned>>
       ELSE /\ pc' = [pc EXCEPT ![p] = ret[p]]
            /\ ret' = [ret EXCEPT ![p] = "done"]
            /\ resultChanMutex' = NoOne
            /\ closeReturned' = closeReturned + 1
    /\ UNCHANGED <<pureVars, cfgVars, mainPc, ctxVars, rateVars, out, calls,
                   resultsChan, chanCap, chanClosed, resultChanClosed,
                   collVars, fault, attempts, enqueued, dropFull, dropCtx,
                   dropClosed, closeCount, lateSends, sendInfo>>

\* safeClose: resultChanClosed = true; close(resultsChan); then the
\* deferred Unlock and the return.  Closing a closed channel panics.
SafeCloseClose(p) ==
    /\ fault = "none"
    /\ pc[p] = "cClose"
    /\ resultChanClosed' = TRUE
    /\ IF chanClosed
       THEN /\ fault' = "close of closed channel"
            /\ UNCHANGED <<chanClosed, closeCount>>
       ELSE /\ chanClosed' = TRUE
            /\ closeCount' = closeCount + 1
            /\ UNCHANGED fault
    /\ pc' = [pc EXCEPT ![p] = ret[p]]
    /\ ret' = [ret EXCEPT ![p] = "done"]
    /\ resultChanMutex' = NoOne
    /\ closeReturned' = closeReturned + 1
    /\ UNCHANGED <<pureVars, cfgVars, mainPc, ctxVars, rateVars, out, calls,
                   resultsChan, chanCap, collVars, attempts, enqueued,
                   dropFull, dropCtx, dropClosed, lateSends, sendInfo>>

\* ------------------------------------------------------- the collector
\* The collector's select (lines 86-103 / 268-285): the cases that can
\* proceed.  A receive proceeds on a buffered result or on a closed channel.
CollectorCases(done, queue, closed) ==
    (IF done THEN {"ctx"} ELSE {})
    \cup (IF queue # <<>> THEN {"result"} ELSE {})
    \cup (IF queue = <<>> /\ closed THEN {"closed"} ELSE {})

\* case <-testCtx.Done(): return   (deferred close(resultsDone), wg.Done)
CollectorCtxDone ==
    /\ fault = "none"
    /\ collectorPc = "select"
    /\ "ctx" \in CollectorCases(testDone, resultsChan, chanClosed)
    /\ collectorPc' = "done"
    /\ UNCHANGED <<pureVars, cfgVars, mainPc, ctxVars, rateVars, procVars, chanVars,
                   metrics, summaryCount, fault, histVars>>

\* A receive that leaves the result in the channel.
CollectorReceiveKeepsResult ==
    /\ fault = "none"
    /\ collectorPc = "select"
    /\ "result" \in CollectorCases(testDone, resultsChan, chanClosed)
    /\ metrics' = Add(metrics, Head(resultsChan))
    /\ UNCHANGED <<pureVars, cfgVars, mainPc, ctxVars, rateVars, procVars, chanVars,
                   collectorPc, summaryCount, fault, histVars>>

\* case result, ok := <-resultsChan with ok: metrics.Add(result)
CollectorReceive ==
    /\ fault = "none"
    /\ collectorPc = "select"
    /\ "result" \in CollectorCases(testDone, resultsChan, chanClosed)
    /\ metrics' = Add(metrics, Head(resultsChan))
    /\ resultsChan' = Tail(resultsChan)
    /\ UNCHANGED <<pureVars, cfgVars, mainPc, ctxVars, rateVars, procVars, chanCap,
                   chanClosed, resultChanClosed, resultChanMutex,
                   collectorPc, summaryCount, fault, histVars>>

\* case result, ok := <-resultsChan with !ok: metrics.PrintSummary(); return
CollectorChannelClosed ==
    /\ fault = "none"
    /\ collectorPc = "select"
    /\ "closed" \in CollectorCases(testDone, resultsChan, chanClosed)
    /\ summaryCount' = summaryCount + 1
    /\ collectorPc' = "done"
    /\ UNCHANGED <<pureVars, cfgVars, mainPc, ctxVars, rateVars, procVars, chanVars,
                   metrics, fault, histVars>>

\* ------------------------------------------------------ Run (both modes)
\* A start loop that runs once too often.
WorkerIdsOneMore(n) == 1..(IF n < MaxSenders THEN n + 1 ELSE n)

\* Line 325: for i := 0; i < t.concurrency; i++ (workers numbered from 1)
WorkerIds(n) == 1..n

\* Run / runRPSTest / runConcurrentTest up to the point where the
\* goroutines are started: validateTarget, context.WithTimeout, make(chan),
\* go collector, and then either the ticker and the dispatcher goroutine or
\* the workers.  With rps = 0 the interval computation of line 108 divides
\* by zero after the collector has been started.
MainStart ==
    /\ fault = "none"
    /\ mainPc = "validate"
    /\ IF ValidationFails
       THEN /\ mainPc' = "returnedErr"
            /\ UNCHANGED <<pc, chanCap, collectorPc, fault>>
       ELSE IF ConcurrentMode
       THEN /\ mainPc' = "waitCompletion"
            /\ chanCap' = ConcBufSize
            /\ collectorPc' = "select"
            /\ pc' = [p \in Procs |->
                        IF p \in WorkerIds(concurrency) THEN "top" ELSE pc[p]]
            /\ UNCHANGED fault
       ELSE IF rps = 0
       THEN /\ mainPc' = "panicked"
            /\ chanCap' = PlannedTotal
            /\ collectorPc' = "select"
            /\ fault' = "integer divide by zero"
            /\ UNCHANGED pc
       ELSE /\ mainPc' = "waitCompletion"
            /\ chanCap' = PlannedTotal
            /\ collectorPc' = "select"
            /\ pc' = [pc EXCEPT ![Closer] = "loop"]
            /\ UNCHANGED fault
    /\ UNCHANGED <<pureVars, cfgVars, ctxVars, rateVars, ret, out, calls, resultsChan,
                   chanClosed, resultChanClosed, resultChanMutex, metrics,
                   summaryCount, histVars>>

\* The timer of context.WithTimeout(ctx, duration) fires.
DeadlineFires ==
    /\ fault = "none"
    /\ mainPc \in {"waitCompletion", "waitResultsDone", "wgWait"}
    /\ ~testDone
    /\ testDone' = TRUE
    /\ UNCHANGED <<pureVars, cfgVars, mainPc, parentDone, rateVars, procVars, chanVars,
                   collVars, fault, histVars>>

\* The caller cancels ctx; the cancellation propagates to testCtx.
ParentCancel ==
    /\ fault = "none"
    /\ mainPc \in {"waitCompletion", "waitResultsDone", "wgWait"}
    /\ ~parentDone
    /\ parentDone' = TRUE
    /\ testDone' = TRUE
    /\ UNCHANGED <<pureVars, cfgVars, mainPc, rateVars, procVars, chanVars, collVars,
                   fault, histVars>>

\* The select of lines 220-226 / 390-396.  Either case leads on (the
\* ctx.Done() case also calls testCancel, which is already in effect by
\* propagation).  runConcurrentTest then starts the closer goroutine.
MainCompletion ==
    /\ fault = "none"
    /\ mainPc = "waitCompletion"
    /\ parentDone \/ testDone
    /\ mainPc' = "waitResultsDone"
    /\ testDone' = TRUE
    /\ pc' = IF ConcurrentMode THEN [pc EXCEPT ![Closer] = "waitWorkers"]
             ELSE pc
    /\ UNCHANGED <<pureVars, cfgVars, parentDone, rateVars, ret, out, calls, chanVars,
                   collVars, fault, histVars>>

\* <-resultsDone
MainResultsDone ==
    /\ fault = "none"
    /\ mainPc = "waitResultsDone"
    /\ collectorPc = "done"
    /\ mainPc' = "wgWait"
    /\ UNCHANGED <<pureVars, cfgVars, ctxVars, rateVars, procVars, chanVars, collVars,
                   fault, histVars>>

\* wg.Wait(); return nil   (deferred ticker.Stop and testCancel)
MainReturn ==
    /\ fault = "none"
    /\ mainPc = "wgWait"
    /\ wg = 0
    /\ mainPc' = "returned"
    /\ testDone' = TRUE
    /\ tickPending' = FALSE
    /\ UNCHANGED <<pureVars, cfgVars, parentDone, sent, helperPc, procVars, chanVars,
                   collVars, fault, histVars>>

\* -------------------------------------------------------------- rate mode
\* The ticker delivers a tick (ticker.C holds at most one).
Tick ==
    /\ fault = "none"
    /\ RateMode
    /\ pc[Closer] = "loop"
    /\ ~tickPending
    /\ tickPending' = TRUE
    /\ UNCHANGED <<pureVars, cfgVars, mainPc, ctxVars, sent, helperPc, procVars,
                   chanVars, collVars, fault, histVars>>

\* The dispatcher's select (lines 155-160): the cases that can proceed.
DispatcherCases(done, tick) ==
    (IF done THEN {"ctx"} ELSE {}) \cup (IF tick THEN {"tick"} ELSE {})

\* Line 207: sent >= t.rps*int(duration.Seconds())
PlannedReached(n, planned) == n >= planned

\* case <-testCtx.Done(): requestWg.Wait() ...
DispatcherCtxDone ==
    /\ fault = "none"
    /\ RateMode
    /\ pc[Closer] = "loop"
    /\ "ctx" \in DispatcherCases(testDone, tickPending)
    /\ pc' = [pc EXCEPT ![Closer] = "waitRequests"]
    /\ UNCHANGED <<pureVars, cfgVars, mainPc, ctxVars, rateVars, ret, out, calls,
                   chanVars, collVars, fault, histVars>>

\* ... return, which runs the deferred safeClose (then wg.Done).
DispatcherDrained ==
    /\ fault = "none"
    /\ RateMode
    /\ pc[Closer] = "waitRequests"
    /\ requestWg = 0
    /\ CallSafeClose(Closer, "done")
    /\ UNCHANGED <<pureVars, cfgVars, mainPc, ctxVars, rateVars, out, calls,
                   chanVars, collVars, fault, histVars>>

\* case <-ticker.C: start a request goroutine, count it, and when the
\* planned total is reached start the goroutine of lines 209-212 and
\* return, which runs the deferred safeClose.
DispatcherTick ==
    /\ fault = "none"
    /\ RateMode
    /\ pc[Closer] = "loop"
    /\ "tick" \in DispatcherCases(testDone, tickPending)
    /\ tickPending' = FALSE
    /\ sent' = sent + 1
    /\ attempts' = attempts + 1
    /\ IF PlannedReached(sent + 1, PlannedTotal)
       THEN /\ helperPc' = "wait"
            /\ pc' = [pc EXCEPT ![sent + 1] = "request", ![Closer] = "cLock"]
            /\ ret' = [ret EXCEPT ![Closer] = "done"]
       ELSE /\ pc' = [pc EXCEPT ![sent + 1] = "request"]
            /\ UNCHANGED <<helperPc, ret>>
    /\ UNCHANGED <<pureVars, cfgVars, mainPc, ctxVars, out, calls, chanVars, collVars,
                   fault, enqueued, dropFull, dropCtx, dropClosed, closeCount,
                   closeReturned, lateSends, sendInfo>>

\* Lines 209-212: requestWg.Wait(); testCancel()
HelperCancel ==
    /\ fault = "none"
    /\ helperPc = "wait"
    /\ requestWg = 0
    /\ helperPc' = "done"
    /\ testDone' = TRUE
    /\ UNCHANGED <<pureVars, cfgVars, mainPc, parentDone, tickPending, sent, procVars,
                   chanVars, collVars, fault, histVars>>

\* A request that ignores testCtx and hangs once it is cancelled.
RequestHangsAfterCancel(p) ==
    /\ fault = "none"
    /\ pc[p] = "request"
    /\ ~testDone
    /\ \E r \in Outcomes :
          CallSafeSend(p, r, IF RateMode THEN "done"
                             ELSE IF r.Error THEN "backoff" ELSE "idle")
    /\ UNCHANGED <<pureVars, cfgVars, mainPc, ctxVars, rateVars, calls, chanVars,
                   collVars, fault, attempts, enqueued, dropFull, dropCtx,
                   dropClosed, closeCount, closeReturned, lateSends>>

\* A worker that gives up after a failed request.
RequestCompleteStopsOnError(p) ==
    /\ fault = "none"
    /\ pc[p] = "request"
    /\ \E r \in Outcomes :
          CallSafeSend(p, r, IF RateMode THEN "done"
                             ELSE IF r.Error THEN "stopped" ELSE "idle")
    /\ UNCHANGED <<pureVars, cfgVars, mainPc, ctxVars, rateVars, calls, chanVars,
                   collVars, fault, attempts, enqueued, dropFull, dropCtx,
                   dropClosed, closeCount, closeReturned, lateSends>>

\* A request attempt ends (lines 165-203 / 335-375): request construction,
\* client.Do, and the call of safeSend with the Result.  A request
\* goroutine returns after the send; a worker backs off after an error and
\* idles after a response.
RequestComplete(p) ==
    /\ fault = "none"
    /\ pc[p] = "request"
    /\ \E r \in Outcomes :
          CallSafeSend(p, r, IF RateMode THEN "done"
                             ELSE IF r.Error THEN "backoff" ELSE "idle")
    /\ UNCHANGED <<pureVars, cfgVars, mainPc, ctxVars, rateVars, calls, chanVars,
                   collVars, fault, attempts, enqueued, dropFull, dropCtx,
                   dropClosed, closeCount, closeReturned, lateSends>>

\* ------------------------------------------------------- concurrency mode
\* A loop head that never looks at testCtx.
WorkerLoopCasesNoCtx(done) == {"default"}

\* The worker's select at the loop head (lines 331-334): ctx.Done() when
\* it is closed, default otherwise.
WorkerLoopCases(done) == IF done THEN {"ctx"} ELSE {"default"}

WorkerStop(p) ==
    /\ fault = "none"
    /\ pc[p] = "top"
    /\ "ctx" \in WorkerLoopCases(testDone)
    /\ pc' = [pc EXCEPT ![p] = "stopped"]
    /\ UNCHANGED <<pureVars, cfgVars, mainPc, ctxVars, rateVars, ret, out, calls,
                   chanVars, collVars, fault, histVars>>

WorkerStartRequest(p) ==
    /\ fault = "none"
    /\ pc[p] = "top"
    /\ "default" \in WorkerLoopCases(testDone)
    /\ attempts < MaxAttempts
    /\ pc' = [pc EXCEPT ![p] = "request"]
    /\ attempts' = attempts + 1
    /\ UNCHANGED <<pureVars, cfgVars, mainPc, ctxVars, rateVars, ret, out, calls,
                   chanVars, collVars, fault, enqueued, dropFull, dropCtx,
                   dropClosed, closeCount, closeReturned, lateSends, sendInfo>>

\* time.Sleep(100 * time.Millisecond); continue
WorkerBackoffEnd(p) ==
    /\ fault = "none"
    /\ pc[p] = "backoff"
    /\ pc' = [pc EXCEPT ![p] = "top"]
    /\ UNCHANGED <<pureVars, cfgVars, mainPc, ctxVars, rateVars, ret, out, calls,
                   chanVars, collVars, fault, histVars>>

\* The select of lines 378-383: case <-time.After(10 * time.Millisecond)
WorkerIdleEnd(p) ==
    /\ fault = "none"
    /\ pc[p] = "idle"
    /\ pc' = [pc EXCEPT ![p] = "top"]
    /\ UNCHANGED <<pureVars, cfgVars, mainPc, ctxVars, rateVars, ret, out, calls,
                   chanVars, collVars, fault, histVars>>

\* The select of lines 378-383: case <-testCtx.Done(): return
WorkerIdleCancelled(p) ==
    /\ fault = "none"
    /\ pc[p] = "idle"
    /\ testDone
    /\ pc' = [pc EXCEPT ![p] = "stopped"]
    /\ UNCHANGED <<pureVars, cfgVars, mainPc, ctxVars, rateVars, ret, out, calls,
                   chanVars, collVars, fault, histVars>>

\* Lines 399-402: workerWg.Wait(); safeClose()
CloserDrained ==
    /\ fault = "none"
    /\ ConcurrentMode
    /\ pc[Closer] = "waitWorkers"
    /\ workerWg = 0
    /\ CallSafeClose(Closer, "done")
    /\ UNCHANGED <<pureVars, cfgVars, mainPc, ctxVars, rateVars, out, calls,
                   chanVars, collVars, fault, histVars>>

\* ------------------------------------------------------------------ Spec
\* Nothing has been given to the aggregate, the validator or the
\* recommender on their own.
NoTarget == <<>>
\* The nil *url.URL.
NilURL == [nil |-> TRUE, Scheme |-> <<>>, Host |-> <<>>, Path |-> <<>>]
NotValidated ==
    [called |-> FALSE, target |-> <<>>, err |-> FALSE, url |-> NilURL]
NoRecommendations ==
    [computed |-> FALSE, CPURequest |-> FloatZero, CPULimit |-> FloatZero,
     MemoryRequest |-> FloatZero, MemoryLimit |-> FloatZero]

\* No sample in hand.
NoSample == [CPUUsage |-> FloatZero, MemoryUsage |-> FloatZero]

\* main is not running.
FlowIdle ==
    /\ flowPc = "idle"
    /\ ctxCancelled = FALSE
    /\ samplerPc = "unstarted"
    /\ tickerC = FALSE
    /\ sample = NoSample
    /\ metricsChanCloses = 0
    /\ gathererPc = "unstarted"
    /\ received = NoSample
    /\ loadPc = "unstarted"
    /\ resultChan = <<>>
    /\ loadTestFinished = FALSE

PureIdle ==
    /\ FlowIdle
    /\ fed = <<>>
    /\ stats = NoStats
    /\ target = NoTarget
    /\ parsed = NotValidated
    /\ allMetrics = <<>>
    /\ margin = 0
    /\ recs = NoRecommendations

Init ==
    /\ rps \in 0..MaxRps
    /\ concurrency \in 0..MaxSenders
    /\ durSecs \in 0..MaxDurSecs
    /\ IF concurrency = 0
       THEN rps * durSecs <= MaxSenders
       ELSE /\ rps \in (IF concurrency = 1 THEN {0, MaxRps} ELSE {MaxRps})
            /\ durSecs = MaxDurSecs
    /\ parseErr \in BOOLEAN
    /\ mainPc = "validate"
    /\ parentDone = FALSE
    /\ testDone = FALSE
    /\ tickPending = FALSE
    /\ sent = 0
    /\ helperPc = "unstarted"
    /\ pc = [p \in Procs |-> "unstarted"]
    /\ ret = [p \in Procs |-> "done"]
    /\ out = [p \in Procs |-> NoResult]
    /\ calls = 0
    /\ resultsChan = <<>>
    /\ chanCap = 0
    /\ chanClosed = FALSE
    /\ resultChanClosed = FALSE
    /\ resultChanMutex = NoOne
    /\ collectorPc = "unstarted"
    /\ metrics = ZeroMetrics
    /\ summaryCount = 0
    /\ fault = "none"
    /\ attempts = 0
    /\ enqueued = 0
    /\ dropFull = 0
    /\ dropCtx = 0
    /\ dropClosed = 0
    /\ closeCount = 0
    /\ closeReturned = 0
    /\ lateSends = 0
    /\ sendInfo = [p \in Procs |-> NoInfo]
    /\ PureIdle

Next ==
    \/ MainStart
    \/ DeadlineFires
    \/ ParentCancel
    \/ MainCompletion
    \/ MainResultsDone
    \/ MainReturn
    \/ Tick
    \/ DispatcherCtxDone
    \/ DispatcherDrained
    \/ DispatcherTick
    \/ HelperCancel
    \/ CloserDrained
    \/ CollectorCtxDone
    \/ CollectorReceive
    \/ CollectorChannelClosed
    \/ \E p \in Senders : RequestComplete(p)
    \/ \E p \in Senders : WorkerStop(p)
    \/ \E p \in Senders : WorkerStartRequest(p)
    \/ \E p \in Senders : WorkerBackoffEnd(p)
    \/ \E p \in Senders : WorkerIdleEnd(p)
    \/ \E p \in Senders : WorkerIdleCancelled(p)
    \/ \E p \in Procs : SafeSendLock(p)
    \/ \E p \in Procs : SafeSendSelect(p)
    \/ \E p \in Procs : SafeCloseLock(p)
    \/ \E p \in Procs : SafeCloseClose(p)

Spec == Init /\ [][Next]_vars

\* ------------------------------------------------------- guard harness
\* The guard on its own: every process is a client that calls safeSend and
\* safeClose in any order and number, next to the collector and the
\* cancellation of testCtx.  It exercises the call patterns Run itself
\* never produces (several safeClose calls, from different goroutines).
Clients == {p \in Procs : p < MaxClients}

GuardInit ==
    /\ rps = 0
    /\ concurrency = 0
    /\ durSecs = 0
    /\ parseErr = FALSE
    /\ mainPc = "harness"
    /\ parentDone = FALSE
    /\ testDone = FALSE
    /\ tickPending = FALSE
    /\ sent = 0
    /\ helperPc = "unstarted"
    /\ pc = [p \in Procs |-> IF p \in Clients THEN "idle" ELSE "unstarted"]
    /\ ret = [p \in Procs |-> "done"]
    /\ out = [p \in Procs |-> NoResult]
    /\ calls = 0
    /\ resultsChan = <<>>
    /\ chanCap \in 0..ConcBufSize
    /\ chanClosed = FALSE
    /\ resultChanClosed = FALSE
    /\ resultChanMutex = NoOne
    /\ collectorPc = "select"
    /\ metrics = ZeroMetrics
    /\ summaryCount = 0
    /\ fault = "none"
    /\ attempts = 0
    /\ enqueued = 0
    /\ dropFull = 0
    /\ dropCtx = 0
    /\ dropClosed = 0
    /\ closeCount = 0
    /\ closeReturned = 0
    /\ lateSends = 0
    /\ sendInfo = [p \in Procs |-> NoInfo]
    /\ PureIdle

ClientSend(p) ==
    /\ fault = "none"
    /\ mainPc = "harness"
    /\ pc[p] = "idle"
    /\ calls < MaxCalls
    /\ calls' = calls + 1
    /\ \E r \in Outcomes : CallSafeSend(p, r, "idle")
    /\ UNCHANGED <<pureVars, cfgVars, mainPc, ctxVars, rateVars, chanVars,
                   collVars, fault, attempts, enqueued, dropFull, dropCtx,
                   dropClosed, closeCount, closeReturned, lateSends>>

ClientClose(p) ==
    /\ fault = "none"
    /\ mainPc = "harness"
    /\ pc[p] = "idle"
    /\ calls < MaxCalls
    /\ calls' = calls + 1
    /\ CallSafeClose(p, "idle")
    /\ UNCHANGED <<pureVars, cfgVars, mainPc, ctxVars, rateVars, out, chanVars,
                   collVars, fault, histVars>>

HarnessCancel ==
    /\ fault = "none"
    /\ mainPc = "harness"
    /\ ~testDone
    /\ testDone' = TRUE
    /\ UNCHANGED <<pureVars, cfgVars, mainPc, parentDone, rateVars, procVars, chanVars,
                   collVars, fault, histVars>>

GuardNext ==
    \/ HarnessCancel
    \/ CollectorCtxDone
    \/ CollectorReceive
    \/ CollectorChannelClosed
    \/ \E p \in Clients : ClientSend(p)
    \/ \E p \in Clients : ClientClose(p)
    \/ \E p \in Procs : SafeSendLock(p)
    \/ \E p \in Procs : SafeSendSelect(p)
    \/ \E p \in Procs : SafeCloseLock(p)
    \/ \E p \in Procs : SafeCloseClose(p)

GuardSpec == GuardInit /\ [][GuardNext]_vars

\* ------------------------------------------------------------- fairness
\* The Go scheduler runs runnable goroutines and the timer of
\* context.WithTimeout fires.  The ticker's deliveries and the caller's
\* cancellation are left to the environment.
MainSteps == MainStart \/ MainCompletion \/ MainResultsDone \/ MainReturn
CollectorSteps == CollectorCtxDone \/ CollectorReceive \/ CollectorChannelClosed
CloserSteps ==
    \/ DispatcherCtxDone \/ DispatcherDrained \/ DispatcherTick
    \/ CloserDrained \/ SafeCloseLock(Closer) \/ SafeCloseClose(Closer)
SenderSteps(p) ==
    \/ RequestComplete(p) \/ SafeSendLock(p) \/ SafeSendSelect(p)
    \/ WorkerStop(p) \/ WorkerStartRequest(p) \/ WorkerBackoffEnd(p)
    \/ WorkerIdleEnd(p) \/ WorkerIdleCancelled(p)

\* A step of some goroutine of the run, or the deadline timer firing.
GoroutineSteps ==
    \/ MainSteps \/ CollectorSteps \/ CloserSteps \/ HelperCancel
    \/ DeadlineFires
    \/ \E p \in Senders : SenderSteps(p)

\* While a goroutine can run or the timer is armed, one of them goes on.
Fairness == WF_vars(GoroutineSteps)

FairSpec == Spec /\ Fairness

\* The same scheduling with the deadline timer left to the environment:
\* what a run does when the deadline is far away.
UntimedSteps ==
    \/ MainSteps \/ CollectorSteps \/ CloserSteps \/ HelperCancel
    \/ \E p \in Senders : SenderSteps(p)

UntimedFairSpec == Spec /\ WF_vars(UntimedSteps)

\* ------------------------------------------------- the aggregate alone
\* A Metrics value fed any sequence of outcomes through Add.
\* No run is in progress: only the functions of the package are called.
NoRun(label) ==
    /\ rps = 0
    /\ concurrency = 0
    /\ durSecs = 0
    /\ parseErr = FALSE
    /\ mainPc = label
    /\ parentDone = FALSE
    /\ testDone = FALSE
    /\ tickPending = FALSE
    /\ sent = 0
    /\ helperPc = "unstarted"
    /\ pc = [p \in Procs |-> "unstarted"]
    /\ ret = [p \in Procs |-> "done"]
    /\ out = [p \in Procs |-> NoResult]
    /\ calls = 0
    /\ resultsChan = <<>>
    /\ chanCap = 0
    /\ chanClosed = FALSE
    /\ resultChanClosed = FALSE
    /\ resultChanMutex = NoOne
    /\ collectorPc = "unstarted"
    /\ summaryCount = 0
    /\ fault = "none"
    /\ attempts = 0
    /\ enqueued = 0
    /\ dropFull = 0
    /\ dropCtx = 0
    /\ dropClosed = 0
    /\ closeCount = 0
    /\ closeReturned = 0
    /\ lateSends = 0
    /\ sendInfo = [p \in Procs |-> NoInfo]

\* A run of n answered requests whose latencies are all different and
\* arrive out of order.
Burst(n, step) ==
    [i \in 1..n |->
        Response(200, (((i * step) % (MaxBurst + 1)) + 1) * Millisecond)]

\* The aggregate starts empty or with a burst already added.
InitialFeeds ==
    {<<>>} \cup {Burst(n, step) : n \in (MaxAdds + 1)..MaxBurst,
                                   step \in 1..MaxStep}

MetricsInit ==
    /\ NoRun("aggregate")
    /\ FlowIdle
    /\ fed \in InitialFeeds
    /\ metrics = AddAll(fed)
    /\ stats = NoStats
    /\ target = NoTarget
    /\ parsed = NotValidated
    /\ allMetrics = <<>>
    /\ margin = 0
    /\ recs = NoRecommendations

\* m.Add(r) for any outcome r.
AddOutcome ==
    /\ mainPc = "aggregate"
    /\ Len(fed) < MaxAdds
    /\ \E r \in AllOutcomes :
          /\ metrics' = Add(metrics, r)
          /\ fed' = Append(fed, r)
    /\ stats' = NoStats
    /\ UNCHANGED <<cfgVars, mainPc, ctxVars, rateVars, procVars, chanVars,
                   collectorPc, summaryCount, fault, histVars,
                   target, parsed, allMetrics, margin, recs, flowVars>>

\* MeanLatency, SuccessRate, P95Latency and Throughput are called on the
\* aggregate.  None of them assigns to a field; P95Latency sorts a copy of
\* m.Latencies (lines 521-522).
ComputeStats ==
    /\ mainPc = "aggregate"
    /\ ~stats.computed
    /\ stats' = [computed |-> TRUE,
                 mean |-> MeanLatency(metrics),
                 successRate |-> SuccessRate(metrics),
                 p95 |-> P95Latency(metrics),
                 throughput |-> Throughput(metrics)]
    /\ UNCHANGED <<runVars, flowVars, fed, target, parsed, allMetrics, margin, recs>>

MetricsNext ==
    \/ AddOutcome
    \/ ComputeStats

MetricsSpec == MetricsInit /\ [][MetricsNext]_vars

----------------------------------------------------------------------------
\* validateTarget alone.  A string is the sequence of its characters.

HttpPrefix == <<"h", "t", "t", "p", ":", "/", "/">>
HttpsPrefix == <<"h", "t", "t", "p", "s", ":", "/", "/">>

\* Only the http:// prefix is recognised.
isURLHttpOnly(s) == Len(s) >= 7 /\ SubSeq(s, 1, 7) = HttpPrefix

isURL(s) ==
    LET hasHTTP == Len(s) >= 7 /\ SubSeq(s, 1, 7) = HttpPrefix
        hasHTTPS == Len(s) >= 8 /\ SubSeq(s, 1, 8) = HttpsPrefix
    IN  hasHTTP \/ hasHTTPS

\* First index at or after i at which s holds c, Len(s) + 1 if none.
RECURSIVE IndexFrom(_, _, _)
IndexFrom(s, c, i) ==
    IF i > Len(s) THEN Len(s) + 1
    ELSE IF s[i] = c THEN i
    ELSE IndexFrom(s, c, i + 1)

\* url.Parse on a string of the form scheme://host/path: the scheme ends at
\* the first colon, the host at the next slash, and a blank in the host is
\* an error ("invalid character in host name"); a blank in the path is not.
urlParse(s) ==
    LET colon == IndexFrom(s, ":", 1)
        slash == IndexFrom(s, "/", colon + 3)
        host == SubSeq(s, colon + 3, slash - 1)
    IN  IF \E i \in DOMAIN host : host[i] = " "
        THEN [err |-> TRUE, url |-> NilURL]
        ELSE [err |-> FALSE,
              url |-> [nil |-> FALSE,
                       Scheme |-> SubSeq(s, 1, colon - 1),
                       Host |-> host,
                       Path |-> SubSeq(s, slash, Len(s))]]

validateTarget(t) ==
    LET withScheme == IF ~isURL(t) THEN HttpPrefix \o t ELSE t
        p == urlParse(withScheme)
    IN  IF p.err
        THEN [called |-> TRUE, target |-> withScheme, err |-> TRUE,
              url |-> NilURL]
        ELSE [called |-> TRUE, target |-> withScheme, err |-> FALSE,
              url |-> p.url]

BodyChars == {"a", ".", "/", " "}
Bodies == UNION {[1..n -> BodyChars] : n \in 0..MaxBody}

\* Nothing, the two schemes, a scheme with one slash and one in capitals.
Prefixes ==
    {<<>>, HttpPrefix, HttpsPrefix,
     <<"h", "t", "t", "p", ":", "/">>,
     <<"H", "T", "T", "P", ":", "/", "/">>}

Targets == {pre \o body : pre \in Prefixes, body \in Bodies}

ValidateInit ==
    /\ NoRun("validateTarget")
    /\ FlowIdle
    /\ metrics = ZeroMetrics
    /\ fed = <<>>
    /\ stats = NoStats
    /\ target \in Targets
    /\ parsed = NotValidated
    /\ allMetrics = <<>>
    /\ margin = 0
    /\ recs = NoRecommendations

\* t.validateTarget() at the head of runRPSTest or runConcurrentTest.
ValidateTarget ==
    /\ mainPc = "validateTarget"
    /\ ~parsed.called
    /\ parsed' = validateTarget(target)
    /\ UNCHANGED <<runVars, flowVars, fed, stats, target, allMetrics, margin, recs>>

\* A Tester built on the string the previous call arrived at validates it.
ValidateAgain ==
    /\ mainPc = "validateTarget"
    /\ parsed.called
    /\ target # parsed.target
    /\ target' = parsed.target
    /\ parsed' = validateTarget(parsed.target)
    /\ UNCHANGED <<runVars, flowVars, fed, stats, allMetrics, margin, recs>>

ValidateNext ==
    \/ ValidateTarget
    \/ ValidateAgain

ValidateSpec == ValidateInit /\ [][ValidateNext]_vars

----------------------------------------------------------------------------
\* GenerateRecommendations alone.  A float64 is the exact fraction it
\* stands for, kept in lowest terms with a positive denominator.

RECURSIVE GCD(_, _)
GCD(a, b) == IF b = 0 THEN a ELSE GCD(b, a % b)

Abs(n) == IF n < 0 THEN 0 - n ELSE n

Reduce(x) ==
    LET g == GCD(Abs(x.num), x.den)
    IN  Frac(x.num \div g, x.den \div g)

FAdd(x, y) == Reduce(Frac(x.num * y.den + y.num * x.den, x.den * y.den))
FMul(x, y) == Reduce(Frac(x.num * y.num, x.den * y.den))
FDivInt(x, n) == Reduce(Frac(x.num, x.den * n))
FLess(x, y) == x.num * y.den < y.num * x.den

\* Lines 48-60.
RECURSIVE TotalUsage(_, _)
TotalUsage(ms, field) ==
    IF ms = <<>> THEN FloatZero
    ELSE FAdd(TotalUsage(SubSeq(ms, 1, Len(ms) - 1), field),
              ms[Len(ms)][field])

CalculateAverageMetrics(ms) ==
    IF Len(ms) = 0 THEN [cpu |-> FloatZero, memory |-> FloatZero]
    ELSE [cpu |-> FDivInt(TotalUsage(ms, "CPUUsage"), Len(ms)),
          memory |-> FDivInt(TotalUsage(ms, "MemoryUsage"), Len(ms))]

\* Lines 63-81: the loop from the first element on.
RECURSIVE PeakFrom(_, _, _, _)
PeakFrom(ms, field, i, peak) ==
    IF i > Len(ms) THEN peak
    ELSE PeakFrom(ms, field, i + 1,
                  IF FLess(peak, ms[i][field]) THEN ms[i][field] ELSE peak)

CalculatePeakMetrics(ms) ==
    IF Len(ms) = 0 THEN [cpu |-> FloatZero, memory |-> FloatZero]
    ELSE [cpu |-> PeakFrom(ms, "CPUUsage", 1, ms[1].CPUUsage),
          memory |-> PeakFrom(ms, "MemoryUsage", 1, ms[1].MemoryUsage)]

minCPURequest == Frac(1, 100)
minCPULimit == Frac(5, 100)
minMemoryRequest == Frac(32, 1)
minMemoryLimit == Frac(64, 1)

\* No minimum is applied.
applyNoMinimumValues(r) == r

applyMinimumValues(r) ==
    LET r1 == IF FLess(r.CPURequest, minCPURequest)
              THEN [r EXCEPT !.CPURequest = minCPURequest] ELSE r
        r2 == IF FLess(r1.CPULimit, minCPULimit)
              THEN [r1 EXCEPT !.CPULimit = minCPULimit] ELSE r1
        r3 == IF FLess(r2.MemoryRequest, minMemoryRequest)
              THEN [r2 EXCEPT !.MemoryRequest = minMemoryRequest] ELSE r2
        r4 == IF FLess(r3.MemoryLimit, minMemoryLimit)
              THEN [r3 EXCEPT !.MemoryLimit = minMemoryLimit] ELSE r3
        r5 == IF FLess(r4.CPULimit, r4.CPURequest)
              THEN [r4 EXCEPT !.CPULimit = r4.CPURequest] ELSE r4
    IN  IF FLess(r5.MemoryLimit, r5.MemoryRequest)
        THEN [r5 EXCEPT !.MemoryLimit = r5.MemoryRequest] ELSE r5

GenerateRecommendations(ms, m) ==
    LET avg == CalculateAverageMetrics(ms)
        peak == CalculatePeakMetrics(ms)
        marginMultiplier == FAdd(Frac(1, 1), FDivInt(Frac(m, 1), 100))
    IN  applyMinimumValues(
            [computed |-> TRUE,
             CPURequest |-> FMul(avg.cpu, marginMultiplier),
             CPULimit |-> FMul(peak.cpu, marginMultiplier),
             MemoryRequest |-> FMul(avg.memory, marginMultiplier),
             MemoryLimit |-> FMul(peak.memory, marginMultiplier)])

\* Usage samples: 1m, 100m and 200m cores; 10, 100 and 150 Mi.
CPUUsages == {Frac(1, 1000), Frac(1, 10), Frac(1, 5)}
MemoryUsages == {Frac(10, 1), Frac(100, 1), Frac(150, 1)}
Samples ==
    {[CPUUsage |-> c, MemoryUsage |-> u] : c \in CPUUsages,
                                            u \in MemoryUsages}

\* The margin flag is any int; its default is 20.
Margins == {0 - 150, 0, 20}

RecommendInit ==
    /\ NoRun("recommend")
    /\ FlowIdle
    /\ metrics = ZeroMetrics
    /\ fed = <<>>
    /\ stats = NoStats
    /\ target = NoTarget
    /\ parsed = NotValidated
    /\ allMetrics = <<>>
    /\ margin \in Margins
    /\ recs = NoRecommendations

\* One more point-in-time sample is collected.
CollectSample ==
    /\ mainPc = "recommend"
    /\ Len(allMetrics) < MaxUsage
    /\ \E m \in Samples : allMetrics' = Append(allMetrics, m)
    /\ recs' = NoRecommendations
    /\ UNCHANGED <<runVars, flowVars, fed, stats, target, parsed, margin>>

\* recommender.GenerateRecommendations(allMetrics, currentSettings, margin)
CallGenerateRecommendations ==
    /\ mainPc = "recommend"
    /\ ~recs.computed
    /\ recs' = GenerateRecommendations(allMetrics, margin)
    /\ UNCHANGED <<runVars, flowVars, fed, stats, target, parsed, allMetrics, margin>>

RecommendNext ==
    \/ CollectSample
    \/ CallGenerateRecommendations

RecommendSpec == RecommendInit /\ [][RecommendNext]_vars

----------------------------------------------------------------------------
\* main from the start of the sampler goroutine (main.go line 76) to the
\* output of the recommendations.  loadTester.Run is a call that returns.

\* wg of main, counting only the sample-collecting goroutine.
mainWgWithoutLoadTest == IF gathererPc # "done" THEN 1 ELSE 0

\* wg of main: the load-test goroutine and the sample-collecting goroutine.
mainWg ==
    (IF loadPc # "done" THEN 1 ELSE 0) + (IF gathererPc # "done" THEN 1 ELSE 0)

\* Samples collected or on their way to allMetrics.
SamplesTaken ==
    Len(allMetrics) + (IF samplerPc = "send" THEN 1 ELSE 0)
    + (IF gathererPc = "append" THEN 1 ELSE 0)

MainFlowInit ==
    /\ NoRun("main")
    /\ metrics = ZeroMetrics
    /\ fed = <<>>
    /\ stats = NoStats
    /\ target = NoTarget
    /\ parsed = NotValidated
    /\ allMetrics = <<>>
    /\ margin \in Margins
    /\ recs = NoRecommendations
    /\ flowPc = "select"
    /\ ctxCancelled = FALSE
    /\ samplerPc = "select"
    /\ tickerC = FALSE
    /\ sample = NoSample
    /\ metricsChanCloses = 0
    /\ gathererPc = "range"
    /\ received = NoSample
    /\ loadPc = "running"
    /\ resultChan = <<>>
    /\ loadTestFinished = FALSE

\* The sampler's ticker delivers a tick (ticker.C holds at most one).
SamplerTick ==
    /\ mainPc = "main"
    /\ samplerPc # "done"
    /\ ~tickerC
    /\ SamplesTaken < MaxUsage
    /\ tickerC' = TRUE
    /\ UNCHANGED <<runVars, fed, stats, target, parsed, allMetrics, margin,
                   recs, flowPc, ctxCancelled, samplerPc, sample,
                   metricsChanCloses, gathererPc, received, loadPc,
                   resultChan, loadTestFinished>>

\* SIGINT or SIGTERM arrives: the goroutine of lines 43-47 calls cancel().
SignalArrives ==
    /\ mainPc = "main"
    /\ flowPc \notin {"exited", "printed"}
    /\ ~ctxCancelled
    /\ ctxCancelled' = TRUE
    /\ UNCHANGED <<runVars, fed, stats, target, parsed, allMetrics, margin,
                   recs, flowPc, samplerPc, tickerC, sample,
                   metricsChanCloses, gathererPc, received, loadPc,
                   resultChan, loadTestFinished>>

\* The sampler's select (lines 85-95): the cases that can proceed.
SamplerCases(done, tick) ==
    (IF done THEN {"ctx"} ELSE {}) \cup (IF tick THEN {"tick"} ELSE {})

\* case <-ctx.Done(): return, which runs the deferred ticker.Stop() and
\* close(metricsChan).
SamplerCtxDone ==
    /\ mainPc = "main"
    /\ samplerPc = "select"
    /\ "ctx" \in SamplerCases(ctxCancelled, tickerC)
    /\ samplerPc' = "done"
    /\ tickerC' = FALSE
    /\ metricsChanCloses' = metricsChanCloses + 1
    /\ UNCHANGED <<runVars, fed, stats, target, parsed, allMetrics, margin,
                   recs, flowPc, ctxCancelled, sample, gathererPc, received,
                   loadPc, resultChan, loadTestFinished>>

\* case <-ticker.C: CollectMetrics returns an error (continue) or a sample
\* that the sampler goes on to send.
SamplerCollect ==
    /\ mainPc = "main"
    /\ samplerPc = "select"
    /\ "tick" \in SamplerCases(ctxCancelled, tickerC)
    /\ tickerC' = FALSE
    /\ \/ UNCHANGED <<samplerPc, sample>>
       \/ \E m \in Samples :
             /\ samplerPc' = "send"
             /\ sample' = m
    /\ UNCHANGED <<runVars, fed, stats, target, parsed, allMetrics, margin,
                   recs, flowPc, ctxCancelled, metricsChanCloses, gathererPc,
                   received, loadPc, resultChan, loadTestFinished>>

\* metricsChan <- m meets the receive of "for m := range metricsChan":
\* the channel is unbuffered.
SamplerSend ==
    /\ mainPc = "main"
    /\ samplerPc = "send"
    /\ gathererPc = "range"
    /\ samplerPc' = "select"
    /\ sample' = NoSample
    /\ gathererPc' = "append"
    /\ received' = sample
    /\ UNCHANGED <<runVars, fed, stats, target, parsed, allMetrics, margin,
                   recs, flowPc, ctxCancelled, tickerC, metricsChanCloses,
                   loadPc, resultChan, loadTestFinished>>

\* allMetrics = append(allMetrics, m)
GathererAppend ==
    /\ mainPc = "main"
    /\ gathererPc = "append"
    /\ allMetrics' = Append(allMetrics, received)
    /\ received' = NoSample
    /\ gathererPc' = "range"
    /\ UNCHANGED <<runVars, fed, stats, target, parsed, margin, recs, flowPc,
                   ctxCancelled, samplerPc, tickerC, sample,
                   metricsChanCloses, loadPc, resultChan, loadTestFinished>>

\* The range ends on the closed channel: the deferred
\* close(metricsCollectionDone) and wg.Done() run.
GathererChannelClosed ==
    /\ mainPc = "main"
    /\ gathererPc = "range"
    /\ metricsChanCloses > 0
    /\ gathererPc' = "done"
    /\ UNCHANGED <<runVars, fed, stats, target, parsed, allMetrics, margin,
                   recs, flowPc, ctxCancelled, samplerPc, tickerC, sample,
                   metricsChanCloses, received, loadPc, resultChan,
                   loadTestFinished>>

\* resultChan <- loadTester.Run(ctx, cfg.Duration); wg.Done().  The
\* channel has room for the one value.
LoadTestReturns ==
    /\ mainPc = "main"
    /\ loadPc = "running"
    /\ \E err \in BOOLEAN : resultChan' = Append(resultChan, err)
    /\ loadPc' = "done"
    /\ UNCHANGED <<runVars, fed, stats, target, parsed, allMetrics, margin,
                   recs, flowPc, ctxCancelled, samplerPc, tickerC, sample,
                   metricsChanCloses, gathererPc, received, loadTestFinished>>

\* main's select (lines 127-145), case err := <-resultChan
MainLoadTestResult ==
    /\ mainPc = "main"
    /\ flowPc = "select"
    /\ resultChan # <<>>
    /\ resultChan' = Tail(resultChan)
    /\ loadTestFinished' = TRUE
    /\ flowPc' = "grace"
    /\ UNCHANGED <<runVars, fed, stats, target, parsed, allMetrics, margin,
                   recs, ctxCancelled, samplerPc, tickerC, sample,
                   metricsChanCloses, gathererPc, received, loadPc>>

\* The inner select (lines 137-140) ends on the 5 s timer or on
\* ctx.Done(); then cancel().
MainGraceOver ==
    /\ mainPc = "main"
    /\ flowPc = "grace"
    /\ ctxCancelled' = TRUE
    /\ flowPc' = "waitCollection"
    /\ UNCHANGED <<runVars, fed, stats, target, parsed, allMetrics, margin,
                   recs, samplerPc, tickerC, sample, metricsChanCloses,
                   gathererPc, received, loadPc, resultChan,
                   loadTestFinished>>

\* main's select, case <-ctx.Done()
MainCancelled ==
    /\ mainPc = "main"
    /\ flowPc = "select"
    /\ ctxCancelled
    /\ flowPc' = "waitCollection"
    /\ UNCHANGED <<runVars, fed, stats, target, parsed, allMetrics, margin,
                   recs, ctxCancelled, samplerPc, tickerC, sample,
                   metricsChanCloses, gathererPc, received, loadPc,
                   resultChan, loadTestFinished>>

\* <-metricsCollectionDone
MainCollectionDone ==
    /\ mainPc = "main"
    /\ flowPc = "waitCollection"
    /\ gathererPc = "done"
    /\ flowPc' = "wgWait"
    /\ UNCHANGED <<runVars, fed, stats, target, parsed, allMetrics, margin,
                   recs, ctxCancelled, samplerPc, tickerC, sample,
                   metricsChanCloses, gathererPc, received, loadPc,
                   resultChan, loadTestFinished>>

\* wg.Wait()
MainWgWait ==
    /\ mainPc = "main"
    /\ flowPc = "wgWait"
    /\ mainWg = 0
    /\ flowPc' = "analyse"
    /\ UNCHANGED <<runVars, fed, stats, target, parsed, allMetrics, margin,
                   recs, ctxCancelled, samplerPc, tickerC, sample,
                   metricsChanCloses, gathererPc, received, loadPc,
                   resultChan, loadTestFinished>>

\* Lines 159-165: os.Exit(1) when nothing was collected, otherwise
\* recommender.GenerateRecommendations and the output.
MainAnalyse ==
    /\ mainPc = "main"
    /\ flowPc = "analyse"
    /\ IF Len(allMetrics) = 0
       THEN /\ flowPc' = "exited"
            /\ UNCHANGED recs
       ELSE /\ flowPc' = "printed"
            /\ recs' = GenerateRecommendations(allMetrics, margin)
    /\ UNCHANGED <<runVars, fed, stats, target, parsed, allMetrics, margin,
                   ctxCancelled, samplerPc, tickerC, sample,
                   metricsChanCloses, gathererPc, received, loadPc,
                   resultChan, loadTestFinished>>

MainFlowNext ==
    \/ SamplerTick
    \/ SignalArrives
    \/ SamplerCtxDone
    \/ SamplerCollect
    \/ SamplerSend
    \/ GathererAppend
    \/ GathererChannelClosed
    \/ LoadTestReturns
    \/ MainLoadTestResult
    \/ MainGraceOver
    \/ MainCancelled
    \/ MainCollectionDone
    \/ MainWgWait
    \/ MainAnalyse

MainFlowSpec == MainFlowInit /\ [][MainFlowNext]_vars

\* The Go scheduler runs main and each of its goroutines when they can
\* run, Run returns, and a select that is ready again and again takes each
\* of its ready cases: the sampler does not prefer its ticker to ctx.Done()
\* for ever.  The ticker and the signal are left to the environment.
MainFlowFairness ==
    /\ WF_vars(MainLoadTestResult \/ MainGraceOver \/ MainCancelled
                  \/ MainCollectionDone \/ MainWgWait)
    /\ WF_vars(LoadTestReturns)
    /\ WF_vars(GathererAppend \/ GathererChannelClosed)
    /\ WF_vars(SamplerSend)
    /\ SF_vars(SamplerCtxDone)

MainFlowFairSpec == MainFlowSpec /\ MainFlowFairness

\* ---------------------------------------------------------------- claims
InSend(p) == pc[p] \in {"sLock", "sSelect"}
InClose(p) == pc[p] \in {"cLock", "cClose"}
Steps(p) == pc'[p] # pc[p]

\* safeSend calls made so far: the returned ones and those in progress.
sendCalls ==
    enqueued + dropFull + dropCtx + dropClosed
    + Cardinality({p \in Procs : InSend(p)})

\* Run has returned and every goroutine it started has ended.
Quiescent ==
    /\ mainPc = "returned"
    /\ collectorPc = "done"
    /\ \A p \in Procs : ~Running(p)
    /\ helperPc # "wait"

\* C1: in both modes and under every interleaving of Send, Close and the
\* deadline, no process is ever at the send of safeSend's select while the
\* channel is closed, and the send-on-closed-channel panic is never raised.
C1_NoSendOnClosedChannel ==
    /\ fault # "send on closed channel"
    /\ \A p \in Procs : pc[p] = "sSelect" => ~chanClosed

\* A sender is inside the select of safeSend, holding the mutex, while the
\* closer is blocked in safeClose and the deadline has fired.
C1_Witness ==
    /\ testDone
    /\ pc[Closer] = "cLock"
    /\ \E p \in Senders : pc[p] = "sSelect" /\ resultChanMutex = p

\* C2: in rate mode the result channel is closed only when no request
\* goroutine started by a tick is still running.
C2_ClosedOnlyAfterRequestsDone ==
    (RateMode /\ mainPc # "harness" /\ chanClosed) => requestWg = 0

\* C3: a run that passed validation has printed the summary exactly once
\* when Run returns, never prints it twice, and prints it only when every
\* enqueued outcome has been added to the aggregate.
C3_SummaryExactlyOnce ==
    /\ summaryCount <= 1
    /\ mainPc = "returned" => summaryCount = 1
    /\ summaryCount >= 1 => metrics.Requests = enqueued

\* C4: when Run has returned no request goroutine or worker is running and
\* in rate mode the dispatcher goroutine has ended.
C4_NoProducerOutlivesRun ==
    mainPc = "returned" =>
        /\ \A p \in Senders : ~Running(p)
        /\ RateMode => pc[Closer] = "done"

\* C5: when the collector has ended, the channel holds no outcome and the
\* aggregate's total equals the number of outcomes enqueued.
C5_CollectorDrainsBeforeExit ==
    collectorPc = "done" =>
        /\ resultsChan = <<>>
        /\ metrics.Requests = enqueued

\* C6: once everything has ended, every outcome handed to safeSend has
\* been counted by the aggregate except those dropped on the full-queue
\* path and on the deadline path.
C6_NoOutcomeLostOtherwise ==
    Quiescent => metrics.Requests = sendCalls - dropFull - dropCtx

\* C7: for any number of safeClose calls, concurrent ones included, the
\* channel is closed at most once, it has been closed exactly once as soon
\* as one call has returned, and the double-close panic is never raised.
C7_CloseExactlyOnce ==
    /\ closeCount <= 1
    /\ fault # "close of closed channel"
    /\ closeReturned > 0 => closeCount = 1 /\ chanClosed /\ resultChanClosed

\* Two safeClose calls have returned and a third one is in progress.
C7_Witness ==
    /\ closeReturned >= 2
    /\ closeCount = 1
    /\ \E p \in Clients : InClose(p)

\* C8: a safeSend call that began after a safeClose call had returned
\* returns in one step that leaves the queue, the channel, the flag and the
\* aggregate as they were, enqueues nothing and raises no panic.
C8_SendAfterCloseIsNoOp ==
    [][\A p \in Procs :
          (InSend(p) /\ sendInfo[p].afterClose /\ Steps(p)) =>
              /\ pc'[p] = ret[p]
              /\ dropClosed' = dropClosed + 1
              /\ UNCHANGED <<resultsChan, chanClosed, resultChanClosed,
                             enqueued, metrics, fault>>]_vars

\* A request goroutine called safeSend after safeClose had returned and
\* has itself returned.
C8_Witness ==
    /\ RateMode
    /\ lateSends > 0
    /\ \E p \in Senders : pc[p] = "done"

\* The queue is at capacity.
QueueFull == Len(resultsChan) >= chanCap

\* safeSend cannot block: a process in the select can take a case, and a
\* process waiting for the mutex waits for a holder that can go on.
SendNeverBlocks ==
    \A p \in Procs :
        /\ pc[p] = "sSelect" => ENABLED SafeSendSelect(p)
        /\ pc[p] = "sLock" =>
              \/ ENABLED SafeSendLock(p)
              \/ \E q \in Procs : \/ ENABLED SafeSendSelect(q)
                                  \/ ENABLED SafeCloseClose(q)

\* The select of safeSend on a full queue drops the outcome.
DropsWhenFull(p) ==
    /\ dropFull' + dropCtx' = dropFull + dropCtx + 1
    /\ UNCHANGED <<resultsChan, enqueued, metrics, fault>>
    /\ pc'[p] = ret[p]

C10_NoEnqueueAfterDeadline ==
    [][\A p \in Procs :
          (InSend(p) /\ sendInfo[p].ctxDone /\ Steps(p)) =>
              enqueued' = enqueued]_vars

\* Workers of the run: runConcurrentTest starts goroutines 1..concurrency.
Workers == 1..concurrency

\* C11: in concurrency mode safeClose is called only by the closer
\* goroutine, it is called only when every worker has stopped, and so the
\* channel is closed only when every worker has stopped.
C11_ClosedOnlyAfterWorkersStopped ==
    concurrency > 0 =>
        /\ \A p \in Senders : ~InClose(p)
        /\ (chanClosed \/ InClose(Closer)) =>
              \A p \in Workers : pc[p] = "stopped"

\* Two workers ran, requests were made, and the channel is closed.
C11_Witness ==
    /\ concurrency = 2
    /\ attempts > 0
    /\ chanClosed
    /\ \A p \in Workers : pc[p] = "stopped"

\* Before Run returns some goroutine can run or the deadline timer is
\* still armed.
NoDeadlockBeforeReturn ==
    (fault = "none" /\ mainPc \notin {"returned", "returnedErr"})
        => ENABLED GoroutineSteps

\* C12: no state before Run returns is a deadlock; cancelling the parent
\* context cancels testCtx, so it is observed exactly as the deadline is;
\* and once testCtx is done Run eventually returns, in both modes and
\* whatever the requests produced.
C12_RunTerminates ==
    /\ []NoDeadlockBeforeReturn
    /\ [](parentDone => testDone)
    /\ (testDone ~> mainPc = "returned")

\* Run has returned after the caller cancelled, with requests made.
C12_Witness ==
    /\ mainPc = "returned"
    /\ parentDone
    /\ attempts > 0

\* C13: in rate mode no request attempt is started once testCtx is done.
C13_NoSpawnAfterCancel ==
    [][(RateMode /\ testDone) => attempts' = attempts]_vars

\* C14: in concurrency mode, once testCtx is done no request is started; a
\* worker at the loop head goes to Stopped, and a worker in its idle delay
\* goes to Stopped, directly or through the loop head.
C14_WorkerStopsAtBoundary ==
    [][(concurrency > 0 /\ testDone) =>
          /\ attempts' = attempts
          /\ \A p \in Workers :
                /\ (pc[p] = "top" /\ Steps(p)) => pc'[p] = "stopped"
                /\ (pc[p] = "idle" /\ Steps(p)) =>
                      pc'[p] \in {"stopped", "top"}]_vars

\* A worker has stopped after making a request while another worker's
\* request is still in flight after the cancellation.
C14_Witness ==
    /\ concurrency = 2
    /\ testDone
    /\ attempts = 2
    /\ \E p, q \in Workers : pc[p] = "stopped" /\ pc[q] = "request"

\* C15: in rate mode with rps >= 1 the attempts started, and the
\* aggregate's total, never exceed rps * int(duration.Seconds()).
C15_AttemptsWithinPlan ==
    (RateMode /\ rps >= 1) =>
        /\ attempts <= PlannedTotal
        /\ metrics.Requests <= PlannedTotal

\* C16: in concurrency mode with a duration of at least a second, when
\* everything has ended and at least `concurrency` requests were started,
\* the aggregate's total is at least `concurrency`.
C16_EachWorkerCounted ==
    (concurrency > 0 /\ durSecs > 0 /\ attempts >= concurrency /\ Quiescent)
        => metrics.Requests >= concurrency

\* C17: in concurrency mode, once testCtx is done every worker eventually
\* reaches Stopped.
C17_WorkersEventuallyStop ==
    (concurrency > 0 /\ testDone) ~> (\A p \in Workers : pc[p] = "stopped")

\* Both workers have stopped after the deadline, with requests made and
\* without a cancellation by the caller.
C17_Witness ==
    /\ concurrency = 2
    /\ testDone
    /\ ~parentDone
    /\ attempts > 0
    /\ \A p \in Workers : pc[p] = "stopped"

\* C18: with concurrency > 0 only the worker pool runs and rps plays no
\* part (no dispatcher, ticker, sent counter or interval computation, and
\* the channel has the pool's capacity); with concurrency = 0 only the
\* dispatcher runs and no process is ever in a worker's position.
C18_OneStrategyPerRun ==
    /\ concurrency > 0 =>
          /\ pc[Closer] \notin {"loop", "waitRequests"}
          /\ ~tickPending
          /\ sent = 0
          /\ helperPc = "unstarted"
          /\ fault # "integer divide by zero"
          /\ collectorPc # "unstarted" => chanCap = ConcBufSize
    /\ concurrency = 0 =>
          /\ pc[Closer] # "waitWorkers"
          /\ \A p \in Senders :
                pc[p] \notin {"top", "backoff", "idle", "stopped"}

\* The worker pool runs with rps = 0: a worker's request is in flight.
C18_Witness ==
    /\ concurrency > 0
    /\ rps = 0
    /\ \E p \in Workers : pc[p] = "request"

\* C19: Run returns an error exactly when validateTarget fails, and then
\* nothing has been started and no request made; a run that passed
\* validation never returns an error, whatever its requests produce.
C19_ErrorOnlyOnValidation ==
    /\ mainPc = "returnedErr" =>
          /\ parseErr
          /\ collectorPc = "unstarted"
          /\ \A p \in Procs : pc[p] = "unstarted"
          /\ attempts = 0
    /\ mainPc = "returned" => ~parseErr
    /\ parseErr => mainPc \in {"validate", "returnedErr"}

\* Run has returned nil although the aggregate counted a failed request.
C19_Witness ==
    /\ mainPc = "returned"
    /\ metrics.Failures > 0

\* C20: after every Add, Success + Failures = Requests and Requests is the
\* number of Add calls.
C20_CountsAddUp ==
    /\ metrics.Success + metrics.Failures = metrics.Requests
    /\ metrics.Requests = Len(fed)

\* MaxAdds outcomes were added, successes and failures among them.
C20_Witness ==
    /\ mainPc = "aggregate"
    /\ Len(fed) = MaxAdds
    /\ metrics.Success > 0
    /\ metrics.Failures > 1

\* The outcome handed to the Add of this step.
Added == fed'[Len(fed')]
AddStep == Len(fed') = Len(fed) + 1
CountOf(codes, code) == IF code \in DOMAIN codes THEN codes[code] ELSE 0

\* C21: Add of an outcome without error counts a success exactly when the
\* status code is at least 200 and below 400 and a failure otherwise (so
\* 199 and 400 fail, 200 and 399 succeed); in both cases the code's
\* histogram count grows by one, the latency is added to the cumulative
\* latency and appended to the samples.
C21_SuccessRangeExact ==
    [][(AddStep /\ ~Added.Error) =>
          LET inRange == Added.StatusCode >= 200 /\ Added.StatusCode < 400
          IN  /\ metrics'.Success =
                    metrics.Success + (IF inRange THEN 1 ELSE 0)
              /\ metrics'.Failures =
                    metrics.Failures + (IF inRange THEN 0 ELSE 1)
              /\ CountOf(metrics'.StatusCodes, Added.StatusCode) =
                    CountOf(metrics.StatusCodes, Added.StatusCode) + 1
              /\ metrics'.TotalLatency = metrics.TotalLatency + Added.Latency
              /\ metrics'.Latencies = Append(metrics.Latencies, Added.Latency)
      ]_vars

\* Responses with 199, 200, 399 and 400 have been added: two successes,
\* two failures, four histogram entries.
C21_Witness ==
    /\ DOMAIN metrics.StatusCodes = {199, 200, 399, 400}
    /\ metrics.Success = 2
    /\ metrics.Failures = 2
    /\ Len(metrics.Latencies) = 4

\* C22: Add of an outcome that carries an error adds one to Requests and to
\* Failures and leaves the histogram, the cumulative latency, the samples,
\* MaxLatency and Success as they were.
C22_ErrorOutcomeFrame ==
    [][(AddStep /\ Added.Error) =>
          /\ metrics'.Requests = metrics.Requests + 1
          /\ metrics'.Failures = metrics.Failures + 1
          /\ metrics'.StatusCodes = metrics.StatusCodes
          /\ metrics'.TotalLatency = metrics.TotalLatency
          /\ metrics'.Latencies = metrics.Latencies
          /\ metrics'.MaxLatency = metrics.MaxLatency
          /\ metrics'.Success = metrics.Success
      ]_vars

\* A transport error, which carries a latency, was added after a response.
C22_Witness ==
    /\ Len(fed) >= 2
    /\ ~fed[1].Error
    /\ fed[Len(fed)] = TransportError
    /\ metrics.Failures > 0
    /\ metrics.TotalLatency = fed[1].Latency

\* min(N - 1, floor(0.95 * N))
PercentileRank(n) ==
    IF (19 * n) \div 20 < n - 1 THEN (19 * n) \div 20 ELSE n - 1

\* x is the value at 0-based index k of the samples in ascending order:
\* it is a sample, at most k samples are below it and more than k are not
\* above it.
IsOrderStatistic(x, k, samples) ==
    /\ \E i \in DOMAIN samples : samples[i] = x
    /\ Cardinality({i \in DOMAIN samples : samples[i] < x}) <= k
    /\ Cardinality({i \in DOMAIN samples : samples[i] <= x}) >= k + 1

\* C23: P95Latency returns 0 for no samples and otherwise the sample at
\* ascending index min(N - 1, floor(0.95 N)), and the call leaves the
\* stored samples in their order.
C23_P95IsOrderStatistic ==
    /\ [](stats.computed =>
            IF Len(metrics.Latencies) = 0 THEN stats.p95 = 0
            ELSE IsOrderStatistic(stats.p95,
                                  PercentileRank(Len(metrics.Latencies)),
                                  metrics.Latencies))
    /\ [][stats'.computed => metrics'.Latencies = metrics.Latencies]_vars

\* The percentile of more than twenty unsorted samples has been computed
\* and is not the largest sample.
C23_Witness ==
    /\ stats.computed
    /\ Len(metrics.Latencies) > 20
    /\ metrics.Latencies # SortAscending(metrics.Latencies)
    /\ stats.p95 < metrics.MaxLatency

\* C24: MeanLatency is 0 when Requests or the cumulative latency is 0 and
\* otherwise the integer quotient of the cumulative latency by Requests,
\* where Requests counts every Add, failed outcomes included.
C24_MeanIsIntegerQuotient ==
    stats.computed =>
        /\ metrics.Requests = Len(fed)
        /\ IF metrics.Requests = 0 \/ metrics.TotalLatency = 0
           THEN stats.mean = 0
           ELSE /\ stats.mean * metrics.Requests <= metrics.TotalLatency
                /\ metrics.TotalLatency < (stats.mean + 1) * metrics.Requests

\* The mean was computed over an aggregate that holds a failed outcome and
\* whose cumulative latency is not a multiple of its total.
C24_Witness ==
    /\ stats.computed
    /\ \E i \in DOMAIN fed : fed[i].Error
    /\ stats.mean > 0
    /\ stats.mean * metrics.Requests < metrics.TotalLatency

\* C25: on an aggregate to which nothing was added the four derived
\* statistics can be computed and each of them is 0.
C25_EmptyAggregateIsZero ==
    /\ (mainPc = "aggregate" /\ fed = <<>> /\ ~stats.computed)
          => ENABLED ComputeStats
    /\ (stats.computed /\ fed = <<>>) =>
          /\ stats.mean = 0
          /\ IsZero(stats.successRate)
          /\ stats.p95 = 0
          /\ IsZero(stats.throughput)

\* The statistics of the empty aggregate have been computed.
C25_Witness ==
    /\ stats.computed
    /\ fed = <<>>
    /\ metrics = ZeroMetrics

\* The statistics the claim lists.
Summary(m) ==
    [Requests |-> m.Requests, Success |-> m.Success, Failures |-> m.Failures,
     StatusCodes |-> m.StatusCodes, TotalLatency |-> m.TotalLatency,
     MinLatency |-> m.MinLatency, MaxLatency |-> m.MaxLatency,
     mean |-> MeanLatency(m), successRate |-> SuccessRate(m),
     p95 |-> P95Latency(m)]

\* f rearranged by the permutation q of its indices.
Permuted(f, q) == [i \in DOMAIN f |-> f[q[i]]]

\* C26: adding the outcomes of a sequence in any other order gives the same
\* counts, histogram, cumulative latency, min, max, mean, success rate and
\* 95th percentile.
C26_OrderIndependent ==
    (mainPc = "aggregate" /\ Len(fed) <= MaxAdds) =>
        \A q \in Permutations(DOMAIN fed) :
            Summary(AddAll(Permuted(fed, q))) = Summary(metrics)

\* MaxAdds outcomes, a failed one among them, were added with the
\* latencies out of order.
C26_Witness ==
    /\ Len(fed) = MaxAdds
    /\ \E i \in DOMAIN fed : fed[i].Error
    /\ Len(metrics.Latencies) >= 2
    /\ metrics.Latencies # SortAscending(metrics.Latencies)

\* Latencies of the outcomes without error in f.
AnsweredLatencies(f) == {f[i].Latency : i \in {j \in DOMAIN f : ~f[j].Error}}

\* C27: once an outcome without error has been added, MinLatency is the
\* smallest and MaxLatency the largest latency among the outcomes without
\* error, MinLatency <= MaxLatency, and MinLatency is not the sentinel.
C27_MinMaxTrackAnswered ==
    (mainPc = "aggregate" /\ AnsweredLatencies(fed) # {}) =>
        /\ metrics.MinLatency \in AnsweredLatencies(fed)
        /\ \A l \in AnsweredLatencies(fed) : metrics.MinLatency <= l
        /\ metrics.MaxLatency \in AnsweredLatencies(fed)
        /\ \A l \in AnsweredLatencies(fed) : l <= metrics.MaxLatency
        /\ metrics.MinLatency <= metrics.MaxLatency
        /\ metrics.MinLatency # 24 * Hour

\* The first outcome added was a failed one (it set the sentinel) and
\* responses of different latencies followed.
C27_Witness ==
    /\ Len(fed) >= 3
    /\ fed[1].Error
    /\ metrics.MinLatency < metrics.MaxLatency
    /\ metrics.MinLatency < fed[2].Latency

StartsWith(s, pre) ==
    /\ Len(s) >= Len(pre)
    /\ \A i \in 1..Len(pre) : s[i] = pre[i]
HasScheme(s) == StartsWith(s, HttpPrefix) \/ StartsWith(s, HttpsPrefix)

\* C28: validateTarget puts "http://" in front of the target exactly when
\* the target starts with neither "http://" nor "https://" and leaves a
\* target that has one of them as it is, so validating the string it
\* arrived at changes nothing; when that string cannot be parsed the call
\* returns an error and the nil URL, and otherwise a URL made of the parts
\* of that string.
C28_PrefixExactlyWhenMissing ==
    /\ [](parsed.called =>
            /\ HasScheme(target) => parsed.target = target
            /\ ~HasScheme(target) => parsed.target = HttpPrefix \o target
            /\ HasScheme(parsed.target)
            /\ parsed.err <=> urlParse(parsed.target).err
            /\ parsed.err => parsed.url = NilURL
            /\ ~parsed.err =>
                  /\ ~parsed.url.nil
                  /\ parsed.url.Scheme \o <<":", "/", "/">> \o parsed.url.Host
                        \o parsed.url.Path = parsed.target)
    /\ [][(parsed.called /\ parsed'.called) => parsed' = parsed]_vars

\* A target without scheme was given the prefix and still failed to parse.
C28_Witness ==
    /\ parsed.called
    /\ ~HasScheme(target)
    /\ Len(parsed.target) = Len(target) + 7
    /\ parsed.err
    /\ parsed.url.nil

FEq(x, y) == x.num * y.den = y.num * x.den

\* The largest value of the field among the samples.
LargestUsage(ms, field) ==
    CHOOSE c \in {ms[i][field] : i \in DOMAIN ms} :
        \A i \in DOMAIN ms : ~FLess(c, ms[i][field])

\* x is at least the floor and is the raw value when that is above it.
FlooredAt(x, floor, raw) ==
    /\ ~FLess(x, floor)
    /\ FLess(floor, raw) => FEq(x, raw)

\* C29: for a non-empty list of samples and any margin the recommendation
\* has CPURequest >= 0.01, CPULimit >= 0.05, MemoryRequest >= 32 and
\* MemoryLimit >= 64, no limit below its request, and every value whose
\* raw amount is above its floor is the average (requests) or the peak
\* (limits) usage times (1 + margin/100).
C29_FloorsAndMargin ==
    (recs.computed /\ allMetrics # <<>>) =>
        LET mult == Frac(100 + margin, 100)
            avg == CalculateAverageMetrics(allMetrics)
        IN  /\ FlooredAt(recs.CPURequest, Frac(1, 100), FMul(avg.cpu, mult))
            /\ FlooredAt(recs.CPULimit, Frac(5, 100),
                         FMul(LargestUsage(allMetrics, "CPUUsage"), mult))
            /\ FlooredAt(recs.MemoryRequest, Frac(32, 1),
                         FMul(avg.memory, mult))
            /\ FlooredAt(recs.MemoryLimit, Frac(64, 1),
                         FMul(LargestUsage(allMetrics, "MemoryUsage"), mult))
            /\ ~FLess(recs.CPULimit, recs.CPURequest)
            /\ ~FLess(recs.MemoryLimit, recs.MemoryRequest)

\* Two samples with different CPU usage and a 20% margin: the CPU values
\* are above their floors and the memory values were raised to theirs.
C29_Witness ==
    /\ recs.computed
    /\ Len(allMetrics) = 2
    /\ margin = 20
    /\ allMetrics[1].CPUUsage # allMetrics[2].CPUUsage
    /\ FLess(Frac(1, 100), recs.CPURequest)
    /\ FLess(recs.CPURequest, recs.CPULimit)
    /\ FEq(recs.MemoryRequest, Frac(32, 1))
    /\ FEq(recs.MemoryLimit, Frac(64, 1))

\* C30: no runtime panic is raised in a run.
C30_NoRuntimeFault ==
    fault = "none"

\* A request of p is in flight: the attempt has begun and its outcome has
\* not yet been handed to safeSend.
InFlight(p) == pc[p] = "request"

\* C31: in concurrency mode the goroutines started are exactly the workers
\* 1..concurrency, each of them is at one place of its loop, and so the
\* requests in flight are never more than `concurrency`.
C31_InFlightWithinConcurrency ==
    (concurrency > 0 /\ mainPc \notin {"validate", "returnedErr"}) =>
        /\ {p \in Senders : pc[p] # "unstarted"} = 1..concurrency
        /\ Cardinality({p \in Senders : InFlight(p)}) <= concurrency

\* Fewer workers than senders are configured and every worker has a
\* request in flight.
C31_Witness ==
    /\ concurrency > 0
    /\ concurrency < MaxSenders
    /\ \A p \in 1..concurrency : InFlight(p)

\* C32: a worker whose request failed calls safeSend with the failed
\* outcome and is to back off when the call returns; the backoff is entered
\* only on return from such a call and left only for the head of the loop;
\* and a worker stops only at one of its two selects with the test context
\* done, never on the way out of a failed request.
C32_FailedRequestBacksOffAndContinues ==
    [][\A p \in Workers :
          /\ (pc[p] = "request" /\ pc'[p] # "request" /\ out'[p].Error) =>
                pc'[p] = "sLock" /\ ret'[p] = "backoff"
          /\ (pc[p] # "backoff" /\ pc'[p] = "backoff") =>
                InSend(p) /\ out[p].Error
          /\ (pc[p] = "backoff" /\ pc'[p] # "backoff") => pc'[p] = "top"
          /\ (pc[p] # "stopped" /\ pc'[p] = "stopped") =>
                testDone /\ pc[p] \in {"top", "idle"}
      ]_vars

\* The only worker has begun a second request after its first one failed,
\* and the test context is not done.
C32_Witness ==
    /\ concurrency = 1
    /\ pc[1] = "request"
    /\ attempts = 2
    /\ ~testDone
    /\ dropFull + dropCtx + dropClosed + enqueued = 1
    /\ metrics.Failures + Len(SelectSeq(resultsChan, LAMBDA r : r.Error)) = 1

\* Worker p can stop with its next step.
CanStopNow(p) == ENABLED (SenderSteps(p) /\ pc'[p] = "stopped")

\* C33: when the test context is done while a worker is in its idle delay
\* or in its error backoff, the worker can stop at once, without the
\* delay's timer expiring first.
C33_DelaysInterruptible ==
    \A p \in Workers :
        (fault = "none" /\ testDone /\ pc[p] \in {"idle", "backoff"})
            => CanStopNow(p)

\* C34: in rate mode the capacity of the result channel is the planned
\* total, the outcomes enqueued never exceed it, and so safeSend never
\* drops an outcome because the buffer is full.
C34_RateModeNeverFull ==
    (RateMode /\ collectorPc # "unstarted") =>
        /\ chanCap = rps * durSecs
        /\ enqueued <= chanCap
        /\ dropFull = 0

\* C35: in both modes aggregate total <= outcomes enqueued <= safeSend
\* calls <= request attempts.  Every attempt is either still in flight or
\* has made exactly one safeSend call, and every enqueued outcome is either
\* still in the channel or has been added to the aggregate exactly once.
C35_NoOutcomeCountedTwice ==
    /\ metrics.Requests <= enqueued
    /\ enqueued <= sendCalls
    /\ sendCalls <= attempts
    /\ sendCalls + Cardinality({p \in Senders : InFlight(p)}) = attempts
    /\ metrics.Requests + Len(resultsChan) = enqueued

\* Two attempts have each called safeSend; one outcome was dropped and the
\* other has been added to the aggregate.
C35_Witness ==
    /\ attempts = 2
    /\ sendCalls = 2
    /\ enqueued = 1
    /\ metrics.Requests = 1
    /\ \A p \in Senders : ~InSend(p)

\* The sum of the counts of a histogram.
RECURSIVE SumOfCounts(_)
SumOfCounts(codes) ==
    IF DOMAIN codes = {} THEN 0
    ELSE LET c == CHOOSE k \in DOMAIN codes : TRUE
         IN  codes[c] + SumOfCounts([k \in DOMAIN codes \ {c} |-> codes[k]])

\* C36: after any sequence of Adds the histogram counts sum to the number
\* of latency samples, which is Requests less the outcomes that carried an
\* error; every key of the histogram has a count of at least 1, which is
\* the number of outcomes without error that had that status code.
C36_HistogramMatchesSamples ==
    mainPc = "aggregate" =>
        /\ SumOfCounts(metrics.StatusCodes) = Len(metrics.Latencies)
        /\ Len(metrics.Latencies) =
              metrics.Requests - Cardinality({i \in DOMAIN fed : fed[i].Error})
        /\ \A c \in DOMAIN metrics.StatusCodes :
              /\ metrics.StatusCodes[c] >= 1
              /\ metrics.StatusCodes[c] =
                    Cardinality({i \in DOMAIN fed :
                                    ~fed[i].Error /\ fed[i].StatusCode = c})

\* A failed outcome, a status code seen twice and another seen once.
C36_Witness ==
    /\ mainPc = "aggregate"
    /\ Len(fed) = MaxAdds
    /\ \E i \in DOMAIN fed : fed[i].Error
    /\ Cardinality(DOMAIN metrics.StatusCodes) = 2
    /\ \E c \in DOMAIN metrics.StatusCodes : metrics.StatusCodes[c] = 2

\* C37: in rate mode the goroutine that waits for the requests is started
\* only when the planned total has been spawned; it cancels the test
\* context only when no spawned request is still running, it can do so as
\* soon as that is the case, and from then on Run returns even if the
\* deadline never fires.
C37_PlannedTotalEndsRun ==
    /\ [](helperPc = "wait" => RateMode /\ sent >= rps * durSecs)
    /\ []((helperPc = "wait" /\ fault = "none"
             /\ \A p \in Senders : ~InFlight(p) /\ ~InSend(p))
          => ENABLED HelperCancel)
    /\ [][(helperPc = "wait" /\ helperPc' = "done") =>
             /\ \A p \in Senders : ~InFlight(p) /\ ~InSend(p)
             /\ testDone'
         ]_vars
    /\ (helperPc = "wait") ~> (mainPc = "returned")

\* The planned two requests were spawned and have finished, the waiting
\* goroutine has cancelled the test context and Run has returned; the
\* caller did not cancel.
C37_Witness ==
    /\ RateMode
    /\ rps * durSecs = 2
    /\ sent = 2
    /\ helperPc = "done"
    /\ mainPc = "returned"
    /\ ~parentDone

\* A step of main or of one of its goroutines up to wg.Wait().
StepsUpToWgWait ==
    \/ SamplerCtxDone \/ SamplerCollect \/ SamplerSend
    \/ GathererAppend \/ GathererChannelClosed
    \/ LoadTestReturns
    \/ MainLoadTestResult \/ MainGraceOver \/ MainCancelled
    \/ MainCollectionDone \/ MainWgWait

\* main is past wg.Wait().
Analysing == flowPc \in {"analyse", "exited", "printed"}

\* C38: metricsChan is closed at most once, and only by the sampler as it
\* returns on the cancelled context; main is past wg.Wait() only when the
\* load-test goroutine and the collecting goroutine have finished and the
\* channel is closed, and allMetrics no longer changes from then on;
\* recommendations are generated only there and only from at least one
\* sample, and with no sample main exits instead; and until main is past
\* wg.Wait(), main or one of its goroutines can always take a step, and
\* main does get past it.
C38_MainFlowOrdered ==
    /\ [](metricsChanCloses <= 1)
    /\ [][metricsChanCloses' # metricsChanCloses =>
             ctxCancelled /\ samplerPc = "select" /\ samplerPc' = "done"]_vars
    /\ [](Analysing =>
             loadPc = "done" /\ gathererPc = "done" /\ metricsChanCloses = 1)
    /\ [][Analysing => allMetrics' = allMetrics]_vars
    /\ [](recs.computed <=> flowPc = "printed")
    /\ [](flowPc = "printed" => Len(allMetrics) >= 1)
    /\ [](flowPc = "exited" => allMetrics = <<>>)
    /\ [](flowPc \in {"select", "grace", "waitCollection", "wgWait"}
             => ENABLED StepsUpToWgWait)
    /\ <>Analysing

\* The load test finished, MaxUsage samples were collected and the
\* recommendations were generated from them.
C38_Witness ==
    /\ flowPc = "printed"
    /\ loadTestFinished
    /\ Len(allMetrics) = MaxUsage
    /\ recs.computed
    /\ metricsChanCloses = 1

====
